---- MODULE Spec2Model ----
(***************************************************************************)
(* Day 16 of advent2022 (src/d16.py): the valve graph, the distance matrix *)
(* built by repeated path composition, the recursive max_flow search and   *)
(* the two-actor partition loop of run.                                    *)
(*                                                                         *)
(* Valves are numbered 1..n in input order (the insertion order of the     *)
(* dict Map.valves); valve 1 is the valve named "AA".  A dict is modelled  *)
(* as the sequence of its items in insertion order, so that every loop of  *)
(* the code runs in the order Python runs it.                              *)
(***************************************************************************)
EXTENDS Integers, Sequences, FiniteSets, TLC

VARIABLES
    rate,       \* rate[v]: Valve.rate of valve v
    tunnels,    \* tunnels[v]: Valve.tunnels of valve v, a tuple of valve numbers
    dm,         \* the distance matrix: dm[v] is the row of v, a sequence of <<end, distance>>
    cached,     \* TRUE once cached_property has stored the finished matrix
    paths,      \* the list of one pass of discover_new_paths still to be written
    snap,       \* history: the matrix as the current pass of discover_new_paths read it
    phase,      \* what the caller is doing: "matrix", "search", "single", "double", "done", "raised"
    pc,         \* position inside the current call
    call,       \* arguments of the top-level max_flow call in flight
    stack,      \* the frames of the nested max_flow calls, outermost first
    ret,        \* value returned by the last finished top-level max_flow call
    hist,       \* history: the top-level max_flow calls of the current partition (or the
                \* single call), each with its arguments, the valves it opened in any
                \* branch, and the value it returned
    budget,     \* <<time of the single-actor search, time of the two-actor searches>>
    todo,       \* partitions releases() has still to take
    groups,     \* restriction sets of the current partition still to search
    acc,        \* sum() of the current partition so far
    rels,       \* values yielded by releases() so far
    out,        \* values yielded by run so far
    err         \* exception that ended the program, "none" otherwise

vars == <<rate, tunnels, dm, cached, paths, snap, phase, pc, call, stack, ret, hist,
          budget, todo, groups, acc, rels, out, err>>

graphVars == <<rate, tunnels>>
matrixVars == <<dm, cached, paths, snap>>
searchVars == <<call, stack, ret, hist>>
runVars == <<budget, todo, groups, acc, rels, out>>

(***************************************************************************)
(* Bounds of the model.                                                    *)
(***************************************************************************)
MaxValves == 3      \* valves of the exhaustively enumerated graphs
MaxTime == 5        \* largest time budget of the enumerated max_flow calls

(***************************************************************************)
(* Generic helpers.                                                        *)
(***************************************************************************)
Max2(a, b) == IF a >= b THEN a ELSE b

RECURSIVE SetToSeq(_)
SetToSeq(S) ==
    IF S = {} THEN <<>>
    ELSE LET x == CHOOSE x \in S : \A y \in S : x <= y
         IN <<x>> \o SetToSeq(S \ {x})

RECURSIVE Chain(_)
Chain(ss) == IF ss = <<>> THEN <<>> ELSE Head(ss) \o Chain(Tail(ss))

\* itertools.chain over the items of ss, the items computed once
Concat(ss) == CHOOSE r \in {Chain(s) : s \in {ss}} : TRUE

\* SeqMax taking the least value: min for max.
RECURSIVE SeqMin(_)
SeqMin(s) == IF Len(s) = 1 THEN s[1] ELSE IF s[1] <= SeqMin(Tail(s)) THEN s[1] ELSE SeqMin(Tail(s))

RECURSIVE SeqMax(_)
SeqMax(s) == IF Len(s) = 1 THEN s[1] ELSE Max2(s[1], SeqMax(Tail(s)))

(***************************************************************************)
(* dict[Valve, int] as a sequence of items.                                *)
(***************************************************************************)
Keys(row) == {row[i][1] : i \in DOMAIN row}

Get(row, k) == row[CHOOSE i \in DOMAIN row : row[i][1] = k][2]

\* row[k] = d: an existing key keeps its place, a new key goes last.
Put(row, k, d) ==
    IF k \in Keys(row)
    THEN [i \in DOMAIN row |-> IF row[i][1] = k THEN <<k, d>> ELSE row[i]]
    ELSE Append(row, <<k, d>>)

\* A valve has a row only if setdefault created one: rows are never empty.
HasRow(m, v) == v \in DOMAIN m /\ m[v] # <<>>

(***************************************************************************)
(* Map.valves / Map.neighbours_of.                                         *)
(***************************************************************************)
ValveSet == DOMAIN rate

\* self.valves[t] raises KeyError for a tunnel to a name that is no valve.
\* Dangling finding every tunnel resolved: the lookup never fails.
DanglingNever == FALSE

Dangling == \E v \in DOMAIN tunnels : \E i \in DOMAIN tunnels[v] : tunnels[v][i] \notin DOMAIN tunnels

(***************************************************************************)
(* Map.distance_matrix, lines 43-47: the direct tunnels.                   *)
(***************************************************************************)
RECURSIVE DirectRow(_, _)
DirectRow(row, ts) ==
    IF ts = <<>> THEN row ELSE DirectRow(Put(row, Head(ts), 1), Tail(ts))

InitialMatrix == [v \in DOMAIN tunnels |-> DirectRow(<<>>, tunnels[v])]

(***************************************************************************)
(* discover_new_paths: the list of one pass, in the order it is yielded.   *)
(***************************************************************************)
\* old_distance and old_distance <= new_distance (None and 0 are falsy)
\* KeepsOld without the comparison: a known distance is never replaced.
KeepsAnyOld(destinations, next_end, new_distance) ==
    /\ next_end \in Keys(destinations)
    /\ Get(destinations, next_end) # 0

\* KeepsOld with the comparison reversed: >= for <=.
KeepsOldReversed(destinations, next_end, new_distance) ==
    /\ next_end \in Keys(destinations)
    /\ Get(destinations, next_end) # 0
    /\ Get(destinations, next_end) >= new_distance

\* KeepsOld with a strict comparison: < for <=.
KeepsOldStrict(destinations, next_end, new_distance) ==
    /\ next_end \in Keys(destinations)
    /\ Get(destinations, next_end) # 0
    /\ Get(destinations, next_end) < new_distance

KeepsOld(destinations, next_end, new_distance) ==
    /\ next_end \in Keys(destinations)
    /\ Get(destinations, next_end) # 0
    /\ Get(destinations, next_end) <= new_distance

\* PathsVia taking every hop from end for a single tunnel: d1 + 1 for d1 + d2.
PathsViaUnitHop(m, start, i) ==
    LET end == m[start][i][1]
        d1 == m[start][i][2]
        hops == m[end]
    IN Concat([j \in DOMAIN hops |->
            IF hops[j][1] = start \/ KeepsOld(m[start], hops[j][1], d1 + 1)
            THEN <<>>
            ELSE << <<start, hops[j][1], d1 + 1>> >>])

PathsVia(m, start, i) ==
    LET end == m[start][i][1]
        d1 == m[start][i][2]
        hops == m[end]
    IN Concat([j \in DOMAIN hops |->
            IF hops[j][1] = start \/ KeepsOld(m[start], hops[j][1], d1 + hops[j][2])
            THEN <<>>
            ELSE << <<start, hops[j][1], d1 + hops[j][2]>> >>])

\* PathsFrom leaving after the first destination of start: a break in the loop.
PathsFromFirst(m, start) == IF m[start] = <<>> THEN <<>> ELSE PathsVia(m, start, 1)

PathsFrom(m, start) == Concat([i \in DOMAIN m[start] |-> PathsVia(m, start, i)])

DiscoverNewPaths(m) == Concat([start \in DOMAIN m |-> PathsFrom(m, start)])

\* distance_matrix[end] raises KeyError when end has no row (a valve without tunnels).
DiscoverRaises(m) ==
    \E start \in DOMAIN m : \E i \in DOMAIN m[start] : ~HasRow(m, m[start][i][1])

(***************************************************************************)
(* The graphs the model runs on.                                           *)
(***************************************************************************)
\* The puzzle's example (the doctest of parse_valves), AA..JJ numbered 1..10.
RefRate == <<0, 13, 2, 20, 3, 0, 0, 22, 0, 21>>
RefTunnels == << <<4, 9, 2>>, <<3, 1>>, <<4, 2>>, <<3, 1, 5>>, <<6, 4>>,
                 <<5, 7>>, <<6, 8>>, <<7>>, <<1, 10>>, <<9>> >>

\* Every graph of at most MaxValves valves without self tunnels, the tunnels of
\* a valve listed in ascending order; a valve may have no tunnel at all.
SmallTunnels(n) ==
    {t \in [1..n -> {SetToSeq(S) : S \in SUBSET (1..n)}] :
        \A v \in 1..n : \A i \in DOMAIN t[v] : t[v][i] # v}

\* Shapes the enumeration leaves out: a self tunnel, tunnels listed in
\* descending order, a tunnel to a name that is no valve, and a graph where the
\* last distance one pass writes for a pair is not the smallest it yields for it.
SelfTunnels == << <<1, 2>>, <<1>> >>
DescendingTunnels == << <<3, 2>>, <<3, 1>>, <<2, 1>> >>
DanglingTunnels == << <<2, 3>>, <<1>> >>
LastWriteTunnels == << <<2>>, <<1, 5, 4>>, <<5>>, <<2, 5>>, <<3, 4, 2>> >>

ExtraTunnels == {SelfTunnels, DescendingTunnels, DanglingTunnels, LastWriteTunnels}

MatrixTunnels ==
    UNION {SmallTunnels(n) : n \in 1..MaxValves} \cup ExtraTunnels \cup {RefTunnels}

ZeroRates(t) == [v \in DOMAIN t |-> 0]

(***************************************************************************)
(* State before anything has run.                                          *)
(***************************************************************************)
NoCall == [start |-> 0, time |-> 0, open |-> {}, restrict |-> [some |-> FALSE, set |-> {}]]
\* ret holds no value yet, or the one value returned
NoValue == <<>>

Idle ==
    /\ dm = <<>>
    /\ cached = FALSE
    /\ paths = <<>>
    /\ snap = <<>>
    /\ call = NoCall
    /\ stack = <<>>
    /\ ret = NoValue
    /\ hist = <<>>
    /\ todo = <<>>
    /\ groups = <<>>
    /\ acc = 0
    /\ rels = <<>>
    /\ out = <<>>
    /\ err = "none"

\* volcano.distance_matrix read on a fresh Map.
InitMatrix ==
    /\ tunnels \in MatrixTunnels
    /\ rate = ZeroRates(tunnels)
    /\ budget = <<0, 0>>
    /\ phase = "matrix"
    /\ pc = "build"
    /\ Idle

(***************************************************************************)
(* Map.distance_matrix (cached_property): runs on the first read only.     *)
(***************************************************************************)
Raise(e) ==
    /\ err' = e
    /\ phase' = "raised"
    /\ pc' = "idle"

\* Where control goes when the property returns the finished matrix.
AfterBuild ==
    IF phase = "matrix"
    THEN phase' = "done" /\ pc' = "idle"
    ELSE phase' = phase /\ pc' = "expand"

\* lines 43-47
BuildDirect ==
    /\ pc = "build"
    /\ IF Dangling
       THEN /\ Raise("KeyError")
            /\ UNCHANGED matrixVars
       ELSE /\ dm' = InitialMatrix
            /\ pc' = "scan"
            /\ UNCHANGED <<cached, paths, snap, phase, err>>
    /\ UNCHANGED <<graphVars, searchVars, runVars>>

\* line 49: paths := list(discover_new_paths(distance_matrix)); line 53 when it is empty
Scan ==
    /\ pc = "scan"
    /\ IF DiscoverRaises(dm)
       THEN /\ Raise("KeyError")
            /\ UNCHANGED matrixVars
       ELSE /\ paths' = DiscoverNewPaths(dm)
            /\ snap' = dm
            /\ IF paths' = <<>>
               THEN cached' = TRUE /\ AfterBuild
               ELSE cached' = cached /\ pc' = "apply" /\ phase' = phase
            /\ UNCHANGED <<dm, err>>
    /\ UNCHANGED <<graphVars, searchVars, runVars>>

\* lines 50-51: one distance_matrix[start][end] = distance
WritePath(m, p) == [m EXCEPT ![p[1]] = Put(m[p[1]], p[2], p[3])]

ApplyPath ==
    /\ pc = "apply"
    /\ dm' = WritePath(dm, Head(paths))
    /\ paths' = Tail(paths)
    /\ pc' = IF paths' = <<>> THEN "scan" ELSE "apply"
    /\ UNCHANGED <<cached, snap, phase, err, graphVars, searchVars, runVars>>

Build == BuildDirect \/ Scan \/ ApplyPath

NextMatrix == Build

SpecMatrix == InitMatrix /\ [][NextMatrix]_vars

\* the property's while loop keeps running until it returns or raises
SpecMatrixFair == SpecMatrix /\ WF_vars(NextMatrix)

(***************************************************************************)
(* partitions: itertools.combinations over the valves in iteration order.  *)
(***************************************************************************)
AA == 1

RECURSIVE Combinations(_, _)
Combinations(pool, n) ==
    IF n = 0 THEN << {} >>
    ELSE IF Len(pool) < n THEN <<>>
    ELSE [i \in DOMAIN Combinations(Tail(pool), n - 1) |->
              {Head(pool)} \cup Combinations(Tail(pool), n - 1)[i]]
         \o Combinations(Tail(pool), n)

\* GroupSizes stopping one size short: range(1, len(valves) // 2).
GroupSizesShort(valves) == 1..(Cardinality(valves) \div 2 - 1)

\* lines 146-149
GroupSizes(valves) == 1..(Cardinality(valves) \div 2)

\* Partitions yielding the whole set as the other group: valves for valves - group.
PartitionsWhole(valves) ==
    Concat([n \in GroupSizes(valves) |->
        [i \in DOMAIN Combinations(SetToSeq(valves), n) |->
            <<Combinations(SetToSeq(valves), n)[i], valves>>]])

Partitions(valves) ==
    Concat([n \in GroupSizes(valves) |->
        [i \in DOMAIN Combinations(SetToSeq(valves), n) |->
            <<Combinations(SetToSeq(valves), n)[i],
              valves \ Combinations(SetToSeq(valves), n)[i]>>]])

(***************************************************************************)
(* Map.next_valves and Map.max_flow.  A frame is one max_flow call.        *)
(***************************************************************************)
NoRestrict == [some |-> FALSE, set |-> {}]
Only(S) == [some |-> TRUE, set |-> S]

\* line 97: not restrict or n in restrict (None and the empty frozenset are falsy)
Allowed(restrict, n) ==
    \/ ~restrict.some
    \/ restrict.set = {}
    \/ n \in restrict.set

\* NextValves without the test of lines 65-66.
NextValvesNoIgnore(valve, max_distance, ignore) ==
    LET Yielded(item) ==
            /\ rate[item[1]] # 0
            /\ ~(item[2] > max_distance)
    IN SelectSeq(dm[valve], Yielded)

\* lines 58-68
NextValves(valve, max_distance, ignore) ==
    LET Yielded(item) ==
            /\ rate[item[1]] # 0
            /\ ~(item[2] > max_distance)
            /\ item[1] \notin ignore
    IN SelectSeq(dm[valve], Yielded)

\* lines 77-82: the opening step of a call
Opens(start, open_valves) == rate[start] > 0

\* Frame without line 81: opening takes no minute.
FrameNoMinute(start, time, open_valves) ==
    LET opens == Opens(start, open_valves)
    IN [valve |-> start,
        entered |-> time,
        opened |-> opens,
        time |-> time,
        open |-> IF opens THEN open_valves \cup {start} ELSE open_valves,
        released |-> IF opens THEN rate[start] * time ELSE 0,
        cands |-> <<>>,
        any |-> FALSE,
        best |-> 0]

Frame(start, time, open_valves) ==
    LET opens == Opens(start, open_valves)
        left == IF opens THEN time - 1 ELSE time
    IN [valve |-> start,
        entered |-> time,
        opened |-> opens,
        time |-> left,
        open |-> IF opens THEN open_valves \cup {start} ELSE open_valves,
        released |-> IF opens THEN rate[start] * left ELSE 0,
        cands |-> <<>>,
        any |-> FALSE,
        best |-> 0]

\* Candidates with max_distance=time: no minute kept to open the valve moved to.
CandidatesNoSpare(f, restrict) ==
    LET Passes(item) == Allowed(restrict, item[1])
    IN SelectSeq(NextValves(f.valve, f.time, f.open), Passes)

\* lines 84 and 96-97: the (n, d) pairs the call will recurse into
Candidates(f, restrict) ==
    LET Passes(item) == Allowed(restrict, item[1])
    IN SelectSeq(NextValves(f.valve, f.time - 1, f.open), Passes)

Expanded(f, restrict) == [f EXCEPT !.cands = Candidates(f, restrict)]

\* line 86: released + max(..., default=0)
Returned(f) == f.released + (IF f.any THEN f.best ELSE 0)

\* max() taking one more value
Taken(f, value) ==
    [f EXCEPT !.any = TRUE, !.best = IF f.any THEN Max2(f.best, value) ELSE value]

Top == stack[Len(stack)]

\* max_flow as a function of its arguments on the finished matrix (lines 70-100):
\* the opening step, then released + max(recursive calls, default=0) over the
\* valves next_valves yields and line 97 lets through.
RECURSIVE MaxFlow(_, _, _, _)
MaxFlow(start, time, open_valves, restrict) ==
    LET f == Frame(start, time, open_valves)
        row == IF start \in DOMAIN dm THEN dm[start] ELSE <<>>
        ns == {n \in Keys(row) :
                  /\ rate[n] # 0
                  /\ ~(Get(row, n) > f.time - 1)
                  /\ n \notin f.open
                  /\ Allowed(restrict, n)}
        Sub(n) == MaxFlow(n, f.time - Get(row, n), f.open, restrict)
    IN IF ns = {} THEN f.released
       ELSE f.released + Sub(CHOOSE n \in ns : \A o \in ns : Sub(n) >= Sub(o))

\* the valve a call has opened, as a set
OpenedBy(f) == IF f.opened THEN {f.valve} ELSE {}

\* Call reading distance_matrix as a plain property: every call builds it again.
CallRebuilding ==
    /\ pc = "call"
    /\ stack' = <<Frame(call.start, call.time, call.open)>>
    /\ hist' = Append(hist, [call |-> call,
                             opened |-> OpenedBy(Frame(call.start, call.time, call.open)),
                             done |-> FALSE,
                             value |-> 0])
    /\ pc' = "build"
    /\ UNCHANGED <<graphVars, matrixVars, phase, call, ret, runVars, err>>

\* a top-level max_flow call: lines 77-84, up to the first read of distance_matrix
Call ==
    /\ pc = "call"
    /\ stack' = <<Frame(call.start, call.time, call.open)>>
    /\ hist' = Append(hist, [call |-> call,
                             opened |-> OpenedBy(Frame(call.start, call.time, call.open)),
                             done |-> FALSE,
                             value |-> 0])
    /\ pc' = IF cached THEN "expand" ELSE "build"
    /\ UNCHANGED <<graphVars, matrixVars, phase, call, ret, runVars, err>>

\* the top-level call starts to iterate next_valves: self.distance_matrix[valve]
Expand ==
    /\ pc = "expand"
    /\ IF ~HasRow(dm, Top.valve)
       THEN /\ Raise("KeyError")
            /\ UNCHANGED stack
       ELSE /\ stack' = <<Expanded(Top, call.restrict)>>
            /\ pc' = "frames"
            /\ UNCHANGED <<phase, err>>
    /\ UNCHANGED <<graphVars, matrixVars, call, ret, hist, runVars>>

\* lines 89-94: the recursive call for the next (n, d)
Descend ==
    /\ pc = "frames"
    /\ Top.cands # <<>>
    /\ LET n == Head(Top.cands)[1]
           d == Head(Top.cands)[2]
           child == Frame(n, Top.time - d, Top.open)
           rest == [stack EXCEPT ![Len(stack)].cands = Tail(Top.cands)]
       IN IF ~HasRow(dm, n)
          THEN /\ Raise("KeyError")
               /\ UNCHANGED <<stack, hist>>
          ELSE /\ stack' = Append(rest, Expanded(child, call.restrict))
               /\ hist' = [hist EXCEPT ![Len(hist)].opened = @ \cup OpenedBy(child)]
               /\ UNCHANGED <<phase, pc, err>>
    /\ UNCHANGED <<graphVars, matrixVars, call, ret, runVars>>

\* Where control goes with the value a top-level call returns.
\* "search": the caller is done.  "single": run yields it (line 167) and max()
\* starts to pull releases (lines 168-173).  "double": sum() in releases takes it
\* (line 160) and goes on to the partition's other group, or yields the sum.
AfterCall(value) ==
    CASE phase = "search" ->
            /\ phase' = "done"
            /\ pc' = "idle"
            /\ UNCHANGED <<call, runVars>>
      [] phase = "single" ->
            /\ out' = <<value>>
            /\ todo' = Partitions({v \in ValveSet : rate[v] > 0})
            /\ phase' = "double"
            /\ pc' = "partition"
            /\ UNCHANGED <<call, budget, groups, acc, rels>>
      [] phase = "double" ->
            /\ acc' = acc + value
            /\ groups' = Tail(groups)
            /\ IF groups' # <<>>
               THEN /\ call' = [start |-> AA, time |-> budget[2], open |-> {},
                                restrict |-> Only(Head(groups'))]
                    /\ pc' = "call"
                    /\ rels' = rels
               ELSE /\ rels' = Append(rels, acc')
                    /\ pc' = "partition"
                    /\ call' = call
            /\ UNCHANGED <<phase, budget, todo, out>>

\* Return with one opened set shared by all calls: what the returning call
\* added to the set stays in its caller's set.
ReturnSharing ==
    /\ pc = "frames"
    /\ Top.cands = <<>>
    /\ IF Len(stack) > 1
       THEN /\ stack' = [SubSeq(stack, 1, Len(stack) - 1) EXCEPT
                            ![Len(stack) - 1] =
                                [Taken(stack[Len(stack) - 1], Returned(Top)) EXCEPT
                                    !.open = Top.open]]
            /\ UNCHANGED <<phase, pc, call, ret, hist, runVars>>
       ELSE /\ stack' = <<>>
            /\ ret' = <<Returned(Top)>>
            /\ hist' = [hist EXCEPT ![Len(hist)].done = TRUE,
                                    ![Len(hist)].value = Returned(Top)]
            /\ AfterCall(Returned(Top))
    /\ UNCHANGED <<graphVars, matrixVars, err>>

\* line 86: a call returns to its caller's max()
Return ==
    /\ pc = "frames"
    /\ Top.cands = <<>>
    /\ IF Len(stack) > 1
       THEN /\ stack' = [SubSeq(stack, 1, Len(stack) - 1) EXCEPT
                            ![Len(stack) - 1] = Taken(stack[Len(stack) - 1], Returned(Top))]
            /\ UNCHANGED <<phase, pc, call, ret, hist, runVars>>
       ELSE /\ stack' = <<>>
            /\ ret' = <<Returned(Top)>>
            /\ hist' = [hist EXCEPT ![Len(hist)].done = TRUE,
                                    ![Len(hist)].value = Returned(Top)]
            /\ AfterCall(Returned(Top))
    /\ UNCHANGED <<graphVars, matrixVars, err>>

Search == Call \/ Expand \/ Descend \/ Return

(***************************************************************************)
(* The finished matrix, for starting from a Map whose property is cached.  *)
(***************************************************************************)
RECURSIVE WriteAll(_, _)
WriteAll(m, ps) == IF ps = <<>> THEN m ELSE WriteAll(WritePath(m, Head(ps)), Tail(ps))

RECURSIVE Fixpoint(_)
Fixpoint(m) ==
    IF DiscoverNewPaths(m) = <<>> THEN m ELSE Fixpoint(WriteAll(m, DiscoverNewPaths(m)))

(***************************************************************************)
(* The build with the scan order left open: the distances a pass yields    *)
(* are written in any order (the order dicts happen to iterate in).        *)
(***************************************************************************)
Without(s, k) == [i \in 1..(Len(s) - 1) |-> IF i < k THEN s[i] ELSE s[i + 1]]

ApplyAnyPath ==
    /\ pc = "apply"
    /\ \E k \in DOMAIN paths :
          /\ dm' = WritePath(dm, paths[k])
          /\ paths' = Without(paths, k)
    /\ pc' = IF paths' = <<>> THEN "scan" ELSE "apply"
    /\ UNCHANGED <<cached, snap, phase, err, graphVars, searchVars, runVars>>

InitAnyOrder == InitMatrix /\ tunnels # RefTunnels

NextAnyOrder == BuildDirect \/ Scan \/ ApplyAnyPath

SpecMatrixAnyOrder == InitAnyOrder /\ [][NextAnyOrder]_vars

(***************************************************************************)
(* max_flow called with arbitrary arguments on a Map whose matrix is       *)
(* cached: undirected graphs, valve v with rate 0 or v, start valve AA.    *)
(***************************************************************************)
Symmetric(t) ==
    \A v \in DOMAIN t : \A i \in DOMAIN t[v] :
        \E j \in DOMAIN t[t[v][i]] : t[t[v][i]][j] = v

SearchTunnels ==
    {t \in UNION {SmallTunnels(n) : n \in 1..MaxValves} : Symmetric(t)} \cup {SelfTunnels}

SmallRates(t) == {r \in [DOMAIN t -> 0..Len(t)] : \A v \in DOMAIN t : r[v] \in {0, v}}

\* The opened set is empty or holds one valve; the restriction is None or any set.
SearchArgs(valves) ==
    {[start |-> AA, time |-> t, open |-> o, restrict |-> r] :
        t \in 0..MaxTime,
        o \in {{}} \cup {{v} : v \in valves},
        r \in {NoRestrict} \cup {Only(S) : S \in SUBSET valves}}

InitSearch ==
    /\ tunnels \in SearchTunnels
    /\ rate \in SmallRates(tunnels)
    /\ budget = <<0, 0>>
    /\ phase = "search"
    /\ pc = "call"
    /\ dm = Fixpoint(InitialMatrix)
    /\ cached = TRUE
    /\ paths = <<>>
    /\ snap = dm
    /\ call \in SearchArgs(DOMAIN tunnels)
    /\ stack = <<>>
    /\ ret = NoValue
    /\ hist = <<>>
    /\ todo = <<>>
    /\ groups = <<>>
    /\ acc = 0
    /\ rels = <<>>
    /\ out = <<>>
    /\ err = "none"

NextSearch == Search

SpecSearch == InitSearch /\ [][NextSearch]_vars

\* The unrestricted calls (a restriction only removes candidates), where a call
\* that can take its next step (recurse, return, raise) takes it; every step of
\* the search changes pc or the stack.
InitSearchFair == InitSearch /\ call.restrict = NoRestrict

SpecSearchFair == InitSearchFair /\ [][NextSearch]_vars /\ WF_<<pc, stack>>(NextSearch)

(***************************************************************************)
(* run: the single-actor search, then the maximum over the partitions.     *)
(***************************************************************************)
Time1 == 30     \* default of max_flow's time
Time2 == 26     \* time in releases

\* line 167: volcano.max_flow(volcano["AA"])
RunSingle ==
    /\ phase = "single"
    /\ pc = "start"
    /\ call' = [start |-> AA, time |-> budget[1], open |-> {}, restrict |-> NoRestrict]
    /\ pc' = "call"
    /\ hist' = <<>>
    /\ UNCHANGED <<graphVars, matrixVars, phase, stack, ret, runVars, err>>

\* lines 159-160 and 168: max() pulls the next value of releases, which takes the
\* next partition and calls max_flow for its first group; when partitions is
\* exhausted max() returns, and raises ValueError if it got no value at all.
NextPartition ==
    /\ phase = "double"
    /\ pc = "partition"
    /\ IF todo # <<>>
       THEN /\ groups' = Head(todo)
            /\ todo' = Tail(todo)
            /\ acc' = 0
            /\ call' = [start |-> AA, time |-> budget[2], open |-> {},
                        restrict |-> Only(Head(todo)[1])]
            /\ pc' = "call"
            /\ hist' = <<>>
            /\ UNCHANGED <<phase, rels, out, err>>
       ELSE IF rels = <<>>
       THEN /\ Raise("ValueError")
            /\ UNCHANGED <<call, hist, todo, groups, acc, rels, out>>
       ELSE /\ out' = Append(out, SeqMax(rels))
            /\ phase' = "done"
            /\ pc' = "idle"
            /\ UNCHANGED <<call, hist, todo, groups, acc, rels, err>>
    /\ UNCHANGED <<graphVars, matrixVars, stack, ret, budget>>

Run == RunSingle \/ NextPartition

InitRun ==
    /\ \/ /\ tunnels \in SearchTunnels \cup {DanglingTunnels}
          /\ rate \in SmallRates(tunnels)
          /\ budget \in {<<Time1, Time2>>, <<MaxTime, MaxTime>>}
       \/ /\ tunnels = RefTunnels
          /\ rate = RefRate
          /\ budget = <<Time1, Time2>>
    /\ phase = "single"
    /\ pc = "start"
    /\ Idle

Next == Build \/ Search \/ Run

Spec == InitRun /\ [][Next]_vars

(***************************************************************************)
(* Properties.                                                             *)
(***************************************************************************)
\* every tunnel resolves and every valve has a tunnel, as parse_valves yields them
ValidGraph ==
    /\ ~Dangling
    /\ \A v \in DOMAIN tunnels : tunnels[v] # <<>>

IsRef == tunnels = RefTunnels /\ rate = RefRate

\* C1: on the reference graph AA..JJ the single-actor search from AA with 30
\* minutes, nothing opened and no restriction returns 1651.
C1_ReferenceSingle ==
    (IsRef /\ budget[1] = Time1 /\ Len(out) >= 1) => out[1] = 1651

C1_Witness == IsRef /\ budget[1] = Time1 /\ Len(out) >= 1 /\ call.restrict = NoRestrict

\* C2: on the reference graph the two-actor result, the maximum over the
\* enumerated partitions of the sum of the two restricted 26-minute searches
\* from AA, is 1707.
C2_ReferenceDouble ==
    (IsRef /\ budget[2] = Time2 /\ phase = "done") =>
        /\ Len(out) = 2
        /\ out[2] = 1707
        /\ out[2] = SeqMax(rels)
        /\ Len(rels) = Len(Partitions({v \in ValveSet : rate[v] > 0}))

C2_Witness == IsRef /\ budget[2] = Time2 /\ phase = "done" /\ Len(rels) = 41

\* Breadth-first search over the tunnels from a: the least number of tunnels
\* on a path from a to b, 0 for b = a and -1 when b cannot be reached.
Successors(S) == UNION {{tunnels[v][i] : i \in DOMAIN tunnels[v]} : v \in S}

RECURSIVE BfsLevel(_, _, _, _)
BfsLevel(frontier, seen, k, b) ==
    IF b \in frontier THEN k
    ELSE IF frontier = {} THEN -1
    ELSE BfsLevel(Successors(frontier) \ seen, seen \cup Successors(frontier), k + 1, b)

Hops(a, b) == BfsLevel({a}, {a}, 0, b)

\* C3: once the build has reached its fixpoint every entry dist(a,b) is the
\* minimum hop count from a to b found by breadth-first search, and every
\* ordered pair of distinct valves a, b with b reachable from a has an entry.
\* (A valve has an entry for itself only for a tunnel to itself, of length 1.)
C3_MatrixIsBfs ==
    cached =>
        /\ \A a \in DOMAIN dm : \A i \in DOMAIN dm[a] :
              IF dm[a][i][1] = a
              THEN dm[a][i][2] = 1 /\ a \in Successors({a})
              ELSE dm[a][i][2] = Hops(a, dm[a][i][1])
        /\ \A a \in DOMAIN dm : \A b \in DOMAIN dm :
              (a # b /\ Hops(a, b) > 0) => b \in Keys(dm[a])

C3_Witness ==
    /\ cached
    /\ \E a \in DOMAIN dm : \E i \in DOMAIN dm[a] : dm[a][i][2] = 7 /\ Hops(a, dm[a][i][1]) = 7

\* C4: max_flow(start, time=0, opened={}, restrict=None) returns 0 for every
\* graph and start valve, a start valve with positive rate included.
C4_ZeroTimeReturnsZero ==
    (phase = "done" /\ call.time = 0 /\ call.open = {} /\ call.restrict = NoRestrict)
        => ret = <<0>>

\* C5: max_flow with the empty set as restriction returns 0 for every graph,
\* time budget and opened set.
C5_EmptyRestrictionReturnsZero ==
    (phase = "done" /\ call.restrict = Only({})) => ret = <<0>>

\* C6: for every graph, whatever the number of positive-rate valves, the
\* two-actor result with budget T is defined and is at least the single-actor
\* unrestricted result with the same budget T.
C6_TwoActorsAtLeastOne ==
    (ValidGraph /\ budget[1] = budget[2] /\ phase \in {"done", "raised"}) =>
        /\ Len(out) = 2
        /\ out[2] >= out[1]

\* C7: for every valid graph that contains AA, run completes without raising
\* and yields exactly two integers.
C7_RunYieldsTwoIntegers ==
    ValidGraph =>
        /\ err = "none"
        /\ phase = "done" => (Len(out) = 2 /\ out[1] \in Int /\ out[2] \in Int)

\* C8: along any chain of nested max_flow calls no valve is opened twice: a
\* valve in the branch's opened set is never taken as a candidate destination,
\* so its rate is credited at most once per branch.
C8_NoValveOpenedTwice ==
    /\ \A i \in DOMAIN stack : \A j \in DOMAIN stack :
          (i < j /\ stack[i].opened /\ stack[j].opened) => stack[i].valve # stack[j].valve
    /\ \A j \in DOMAIN stack :
          /\ j > 1 => stack[j].valve \notin stack[j - 1].open
          /\ \A k \in DOMAIN stack[j].cands : stack[j].cands[k][1] \notin stack[j].open

C8_Witness ==
    /\ Len(stack) = 3
    /\ stack[1].opened
    /\ stack[2].opened
    /\ stack[3].opened

\* C9: when max_flow is called with a positive-rate starting valve that is
\* already in the supplied opened set, the valve is not opened again: no
\* minute is spent on it and no pressure is credited for it.
C9_OpenStartNotReopened ==
    (stack # <<>> /\ rate[call.start] > 0 /\ call.start \in call.open) =>
        /\ stack[1].time = call.time
        /\ stack[1].released = 0

\* C10: when a restriction set is supplied, the empty set included, every
\* valve the search moves to and opens in any branch is a member of it.
C10_MovesStayInRestriction ==
    call.restrict.some =>
        \A j \in DOMAIN stack : j > 1 => stack[j].valve \in call.restrict.set

\* the valves partitions is called on (line 171)
PositiveValves == {v \in ValveSet : rate[v] > 0}

\* C11: for every enumerated partition (A, S\A) no valve is opened by both the
\* search restricted to A and the search restricted to S\A, whatever the start
\* valve, one with positive rate included.
C11_ActorsOpenDisjointValves ==
    (phase = "double" /\ Len(hist) = 2) => hist[1].opened \cap hist[2].opened = {}

\* run has just called partitions: nothing of the enumeration is consumed yet
Enumerated == phase = "double" /\ pc = "partition" /\ rels = <<>>

\* C12: the enumeration covers every way to split S into two disjoint subsets,
\* empty subsets included: for every subset A of S the split {A, S\A} is
\* produced as (A, S\A) or as (S\A, A).
C12_EverySplitEnumerated ==
    Enumerated =>
        \A A \in SUBSET PositiveValves :
            \E i \in DOMAIN todo :
                \/ todo[i] = <<A, PositiveValves \ A>>
                \/ todo[i] = <<PositiveValves \ A, A>>

\* C13: the two-actor answer is the maximum, over the enumerated partitions
\* (A, B), of search(restriction A) + search(restriction B), both searches from
\* the same start valve with the same budget and an empty opened set.
GroupCall(k, i) ==
    [start |-> AA, time |-> budget[2], open |-> {},
     restrict |-> Only(Partitions(PositiveValves)[k][i])]

C13_AnswerIsMaxOfSums ==
    /\ (phase = "double" /\ pc = "partition" /\ rels # <<>>) =>
          /\ Len(hist) = 2
          /\ \A i \in 1..2 : hist[i].done /\ hist[i].call = GroupCall(Len(rels), i)
          /\ rels[Len(rels)] = hist[1].value + hist[2].value
    /\ phase = "done" =>
          /\ Len(rels) = Len(Partitions(PositiveValves))
          /\ Len(out) = 2
          /\ \E i \in DOMAIN rels : out[2] = rels[i]
          /\ \A i \in DOMAIN rels : out[2] >= rels[i]

C13_Witness ==
    /\ phase = "done"
    /\ budget[2] = Time2
    /\ Len(rels) >= 3
    /\ \E i \in DOMAIN rels : rels[i] < out[2]

\* some valve of the graph names a tunnel target that is no valve of the graph
UnresolvedTunnel ==
    \E v \in DOMAIN tunnels : \E i \in DOMAIN tunnels[v] : tunnels[v][i] \notin DOMAIN tunnels

C15_SearchNeverFails == err = "none"

\* C16: at the fixpoint of the build the triangle inequality holds: whenever
\* dist(a,b), dist(b,c) and dist(a,c) are all present,
\* dist(a,c) <= dist(a,b) + dist(b,c).
C16_TriangleInequality ==
    cached =>
        \A a \in DOMAIN dm : \A b \in Keys(dm[a]) : \A c \in Keys(dm[b]) :
            c \in Keys(dm[a]) => Get(dm[a], c) <= Get(dm[a], b) + Get(dm[b], c)

C16_Witness ==
    /\ cached
    /\ \E a \in DOMAIN dm : \E b \in Keys(dm[a]) \ {a} : \E c \in Keys(dm[b]) \ {a, b} :
          /\ c \in Keys(dm[a])
          /\ Get(dm[a], c) < Get(dm[a], b) + Get(dm[b], c)
          /\ Get(dm[a], c) > 1

\* b is in a's tunnels iff a is in b's tunnels
Undirected ==
    \A a \in DOMAIN tunnels : \A b \in DOMAIN tunnels :
        b \in Successors({a}) <=> a \in Successors({b})

\* C17: for an undirected tunnel graph the finished matrix is symmetric:
\* dist(a,b) is present iff dist(b,a) is present, and then they are equal.
C17_SymmetricMatrix ==
    (cached /\ Undirected) =>
        \A a \in DOMAIN dm : \A b \in DOMAIN dm :
            /\ b \in Keys(dm[a]) <=> a \in Keys(dm[b])
            /\ b \in Keys(dm[a]) => Get(dm[a], b) = Get(dm[b], a)

C17_Witness ==
    /\ cached /\ Undirected
    /\ \E a \in DOMAIN dm : \E b \in Keys(dm[a]) :
          a \in Keys(dm[b]) /\ Get(dm[a], b) = 3 /\ Get(dm[b], a) = 3

\* The valves a visiting order may open: positive rate, not opened before the
\* call, and permitted by the restriction (every valve when there is none).
Eligible(c) ==
    {v \in ValveSet :
        /\ rate[v] > 0
        /\ v \notin c.open
        /\ c.restrict.some => v \in c.restrict.set}

\* The largest total release over the visiting orders of valves of avail from
\* cur with t minutes left: moving to v costs Hops(cur, v) minutes, opening it
\* one more, and it then releases rate[v] for each minute that remains.
RECURSIVE BestOrder(_, _, _)
BestOrder(cur, t, avail) ==
    LET reach == {v \in avail : Hops(cur, v) >= 0 /\ Hops(cur, v) + 1 <= t}
        Gain(v) == rate[v] * (t - Hops(cur, v) - 1)
                       + BestOrder(v, t - Hops(cur, v) - 1, avail \ {v})
    IN IF reach = {} THEN 0
       ELSE LET best == CHOOSE v \in reach : \A w \in reach : Gain(v) >= Gain(w)
            IN Max2(0, Gain(best))

\* C18: for every graph, start valve, budget >= 1, opened set without the
\* start, and restriction, max_flow returns exactly the maximum total pressure
\* over all feasible visiting orders.
C18_MaxFlowIsOptimal ==
    (phase = "done" /\ call.time >= 1 /\ call.start \notin call.open) =>
        ret = <<BestOrder(call.start, call.time, Eligible(call))>>

\* C19 (as claimed): every single write of the build to an existing entry
\* dist(start,end), each write within one scan pass included, stores a
\* strictly smaller value than the entry holds when it is written.
C19_EveryWriteDecreases ==
    pc = "apply" =>
        LET p == Head(paths)
        IN p[2] \in Keys(dm[p[1]]) => p[3] < Get(dm[p[1]], p[2])

\* C19 (amended): every distance a pass writes is strictly smaller than the
\* value the entry had when the pass began its scan (or the entry did not exist
\* then), so at every point of the build an entry that existed when the current
\* pass began is still present and holds at most the value it had then.  Within
\* one pass a later write may raise what an earlier write of the same pass stored.
C19_WritesBelowPassStart ==
    /\ pc = "apply" =>
          \A k \in DOMAIN paths :
              paths[k][2] \in Keys(snap[paths[k][1]]) =>
                  paths[k][3] < Get(snap[paths[k][1]], paths[k][2])
    /\ \A a \in DOMAIN snap : \A b \in Keys(snap[a]) :
          b \in Keys(dm[a]) /\ Get(dm[a], b) <= Get(snap[a], b)

C19_Witness ==
    /\ pc = "apply"
    /\ LET p == Head(paths)
       IN p[2] \in Keys(snap[p[1]]) /\ p[3] < Get(snap[p[1]], p[2])

\* C20: the build terminates for every finite valid graph: the loop reaches a
\* pass in which discover_new_paths yields nothing and the matrix is returned.
C20_BuildTerminates == ValidGraph => <>(cached /\ paths = <<>> /\ phase = "done")

C20_Witness ==
    /\ ValidGraph /\ cached /\ paths = <<>> /\ phase = "done"
    /\ \E a \in DOMAIN dm : \E b \in Keys(dm[a]) : Get(dm[a], b) >= 4

\* C21: the matrix is built exactly once per graph and never changed
\* afterwards: once the fixpoint is reached no max_flow call, single-actor or
\* partition search, changes an entry of it or starts a build again.
C21_MatrixBuiltOnce ==
    [][cached => (cached' /\ dm' = dm /\ pc' \notin {"build", "scan", "apply"})]_vars

C21_Witness ==
    /\ cached
    /\ phase = "double" /\ Len(rels) >= 2 /\ Len(stack) >= 2
    /\ \E a \in DOMAIN dm : \E b \in Keys(dm[a]) : Get(dm[a], b) >= 2

\* The valves the spec lets a call in frame f move to: positive rate, not in
\* the branch's opened set, a recorded distance of at most f.time - 1 from the
\* current valve, and in the restriction set when one was supplied.
MayMoveTo(f, restrict) ==
    {n \in ValveSet :
        /\ rate[n] > 0
        /\ n \notin f.open
        /\ n \in Keys(dm[f.valve])
        /\ Get(dm[f.valve], n) <= f.time - 1
        /\ restrict.some => n \in restrict.set}

\* C22: a valve is recursed into if and only if it has strictly positive rate,
\* is not in the branch's opened set, has a recorded distance d of at most the
\* remaining time after opening minus 1, and passes the restriction; the
\* recursive call receives the remaining time minus d and the extended opened set.
C22_RecursesIffCandidate ==
    /\ (pc = "frames" /\ ~Top.any) =>
          {Top.cands[i][1] : i \in DOMAIN Top.cands} = MayMoveTo(Top, call.restrict)
    /\ \A i \in 1..(Len(stack) - 1) :
          /\ stack[i + 1].valve \in Keys(dm[stack[i].valve])
          /\ stack[i + 1].entered = stack[i].time - Get(dm[stack[i].valve], stack[i + 1].valve)
          /\ stack[i + 1].open = stack[i].open \cup {stack[i + 1].valve}

\* search(A) + search(S \ A) as releases computes it for a pair of groups
SplitRelease(A) ==
    MaxFlow(AA, budget[2], {}, Only(A))
        + MaxFlow(AA, budget[2], {}, Only(PositiveValves \ A))

\* C23: enumerating only first components of size <= |S|/2 does not change the
\* answer: the maximum over the enumerated partitions equals the maximum of
\* search(A) + search(S \ A) over every subset A of S, of all sizes 0..|S|.
C23_HalfEnumerationSuffices ==
    phase = "done" =>
        /\ \A A \in SUBSET PositiveValves : SplitRelease(A) <= out[2]
        /\ \E A \in SUBSET PositiveValves : SplitRelease(A) = out[2]

\* C24: the enumeration does no duplicate symmetric work: no unordered split
\* {A, S \ A} is yielded more than once, neither twice the same way nor both as
\* (A, S \ A) and as (S \ A, A), also when |S| is even and |A| = |S|/2.
C24_NoSymmetricDuplicates ==
    Enumerated =>
        \A i \in DOMAIN todo : \A j \in DOMAIN todo :
            i # j => {todo[i][1], todo[i][2]} # {todo[j][1], todo[j][2]}

\* C25: every pair (A, B) yielded by partitions(S) is a partition of S (A and B
\* disjoint, their union S), and every subset of S of size 1..floor(|S|/2)
\* appears exactly once as the first component.
C25_PairsArePartitions ==
    Enumerated =>
        /\ \A i \in DOMAIN todo :
              /\ todo[i][1] \cap todo[i][2] = {}
              /\ todo[i][1] \cup todo[i][2] = PositiveValves
              /\ Cardinality(todo[i][1]) \in 1..(Cardinality(PositiveValves) \div 2)
        /\ \A A \in SUBSET PositiveValves :
              Cardinality(A) \in 1..(Cardinality(PositiveValves) \div 2) =>
                  Cardinality({i \in DOMAIN todo : todo[i][1] = A}) = 1

C25_Witness ==
    /\ Enumerated
    /\ Cardinality(PositiveValves) = 6
    /\ \E i \in DOMAIN todo : Cardinality(todo[i][1]) = 3
    /\ \E i \in DOMAIN todo : Cardinality(todo[i][1]) = 1

\* the calls that are on the stack both before and after a step
Surviving == {i \in DOMAIN stack : i \in DOMAIN stack'}

\* C26: sibling branches are isolated: every candidate explored from one call
\* receives that call's opened set, no branch's extension of the set is ever
\* visible in its caller's (hence in a sibling's) set, and the value the call
\* returns is a function of the set of candidates, not of their order.
C26_SiblingsIsolated ==
    /\ [](\A i \in 1..(Len(stack) - 1) :
             stack[i + 1].open = stack[i].open \cup OpenedBy(stack[i + 1]))
    /\ [][\A i \in Surviving :
             stack'[i].valve = stack[i].valve /\ stack'[i].open = stack[i].open]_vars
    /\ [](phase = "done" => ret = <<MaxFlow(call.start, call.time, call.open, call.restrict)>>)

C26_Witness ==
    /\ Len(stack) = 2
    /\ stack[1].any
    /\ stack[2].opened /\ stack[2].cands # <<>>

\* C27: every recursive call reached from a top-level call with budget >= 1
\* is entered with remaining time >= 1, so the time left after any opening is
\* >= 0 and no opening contributes a negative amount; the result of such a
\* top-level call is >= 0.
C27_TimeStaysPositive ==
    call.time >= 1 =>
        /\ \A i \in 2..Len(stack) : stack[i].entered >= 1
        /\ \A i \in DOMAIN stack : stack[i].time >= 0 /\ stack[i].released >= 0
        /\ phase = "done" => ret[1] >= 0

C27_Witness ==
    /\ call.time >= 1
    /\ Len(stack) >= 2
    /\ Top.entered = 1 /\ Top.opened /\ Top.time = 0 /\ Top.released = 0

\* C28: the search terminates for every graph and time budget: each nested
\* call has strictly smaller remaining time and a strictly larger opened set
\* than its caller, so the number of nested calls in progress never exceeds
\* the number of positive-rate valves.
C28_SearchTerminates ==
    /\ [](\A i \in 1..(Len(stack) - 1) :
             /\ stack[i + 1].entered < stack[i].time
             /\ stack[i + 1].time < stack[i].time
             /\ stack[i].open \subseteq stack[i + 1].open
             /\ stack[i].open # stack[i + 1].open)
    /\ [](Len(stack) - 1 <= Cardinality(PositiveValves))
    /\ <>(pc = "idle" /\ phase \in {"done", "raised"})

C28_Witness ==
    /\ pc = "idle" /\ phase = "done"
    /\ hist[1].opened = PositiveValves
    /\ Cardinality(PositiveValves) = Cardinality(ValveSet) - 1
    /\ Cardinality(PositiveValves) >= 2

\* max_flow for the arguments of the current call with another restriction
WithRestriction(r) == MaxFlow(call.start, call.time, call.open, r)

\* C29: the result is monotone in the restriction: for restriction sets
\* R1 \subseteq R2 (R1 possibly empty) and the same graph, start, time and
\* opened set, max_flow(R1) <= max_flow(R2) <= max_flow(None).
C29_MonotoneInRestriction ==
    (phase = "done" /\ call.restrict.some) =>
        \A R2 \in SUBSET ValveSet :
            call.restrict.set \subseteq R2 =>
                /\ ret[1] <= WithRestriction(Only(R2))
                /\ WithRestriction(Only(R2)) <= WithRestriction(NoRestrict)

\* a matrix as a mapping, without the order of its items
AsMap(m) == [a \in DOMAIN m |-> {<<m[a][i][1], m[a][i][2]>> : i \in DOMAIN m[a]}]

\* C30: the finished matrix does not depend on the scan order: whatever order
\* the distances of each pass are written in, the final matrix holds the same
\* entries as the one the build reaches in its own order, even though the
\* matrices in between may differ.
C30_FinalMatrixSameForAnyOrder ==
    cached => AsMap(dm) = AsMap(Fixpoint(InitialMatrix))

C30_Witness ==
    /\ cached
    /\ dm # Fixpoint(InitialMatrix)
    /\ \E a \in DOMAIN dm : \E b \in Keys(dm[a]) : Get(dm[a], b) >= 3

====
